---- MODULE Spec2Model ----
(***************************************************************************)
(* Orchestration logic of the reaction search: the round-robin worklist    *)
(* of react(), the successive constraint optimizer and the reaction job of *)
(* react_utils, the worker pools of the pipeline stages, and the main      *)
(* program of rsearch with its restart levels and output directory.        *)
(***************************************************************************)
EXTENDS Integers, Sequences, FiniteSets, TLC

\* ------------------------------------------------------------------ bounds
MaxLanes == 3
MaxStructs == 3
MaxShuffle == 4
MaxPts == 3
MaxFrames == 2
MaxPipeLanes == 2
MaxConf == 2
MaxThreads == 2

\* ------------------------------------------------------------------ state
VARIABLES
    mtd_indices,      \* react(): the lane indices handed to the stage
    cre,              \* number of structures in CRE/mtd<lane>.xyz
    all_structures,   \* react(): list of [mtd_index, ls_structs]
    worklist,         \* react(): list of (mtd_index, structure)
    it,               \* position of the list iterator of the for loop
    wpc,              \* position of react() in the worklist code
    npts,             \* length of the constraint sequence
    mtd_index,        \* reaction_job: the lane index of the job
    jpc,              \* position of the caller of successive_optimization
    chain,            \* which call of successive_optimization is active
    constraints,      \* successive_optimization: its constraints argument
    initial_xyz,      \* successive_optimization: content of its initial_xyz file
    opc,              \* position of successive_optimization
    step,             \* successive_optimization: the loop variable i
    current,          \* content of the scratch file "current"
    scratch,          \* the scratch files that exist
    structures,       \* successive_optimization: structures
    energies,         \* successive_optimization: energies
    opt_indices,      \* successive_optimization: opt_indices
    calls,            \* the engine invocations made so far, in order
    fres,             \* react_job: fstructs, fe, fopt
    bres,             \* react_job: bstructs, be, bopt
    dumped,           \* what dump_succ_opt was given to write
    restart,          \* rsearch: args.restart
    nthreads,         \* rsearch: args.T, the size of every stage's pool
    mtd,              \* number of structures in metadyn/mtd<lane>_*.xyz
    ppc,              \* position of the main thread in the pipeline
    jobs,             \* every job submitted to a pool so far, in order
    pool,             \* number of pools created so far
    lane_i,           \* position of a stage's loop over mtd_indices
    sub_i,            \* number of jobs submitted by the running loop
    res_i,            \* position of the loop "for f in futures"
    exc,              \* the exception travelling up the main thread
    exc_job,          \* the job whose exception it is (0: not a job's)
    converged,        \* metadynamics_refine: converged
    errors,           \* metadynamics_refine: errors
    cregen_calls,     \* the lanes the selection call was made for
    nreact,           \* react: nreact
    overwrite,        \* rsearch: args.w, the overwrite flag
    log_level,        \* rsearch: args.log_level
    dirs,             \* the entries of the output directory that exist
    ran,              \* the stages called so far, in the order of the calls
    gpc,              \* position of generate_initial_structures
    gen_structures,   \* generate_initial_structures: structures, shuffled
    gen_indices,      \* generate_initial_structures: mtd_indices
    gen_i,            \* number of lanes its loop has gone through
    curr,             \* generate_initial_structures: curr
    seeds,            \* the s0 of every pass of the loop, in order
    opt_files         \* the lanes whose opt file was written, in order

wlvars == <<mtd_indices, cre, all_structures, worklist, it, wpc>>
optvars == <<constraints, initial_xyz, opc, step, current, scratch, structures, energies,
             opt_indices, calls>>
jobvars == <<npts, mtd_index, jpc, chain, fres, bres, dumped>>
pipevars == <<restart, nthreads, mtd, ppc, jobs, pool, lane_i, sub_i, res_i, exc, exc_job,
              converged, errors, cregen_calls, nreact>>
mainvars == <<overwrite, log_level, dirs, ran>>
genvars == <<gpc, gen_structures, gen_indices, gen_i, curr, seeds, opt_files>>
vars == <<wlvars, optvars, jobvars, pipevars, mainvars, genvars>>

\* ------------------------------------------------------------------ helpers
LaneIds == 0 .. (MaxLanes - 1)

Range(s) == {s[i] : i \in 1 .. Len(s)}

InjectiveSeqs(S, n) ==
    {s \in [1 .. n -> S] : \A i, j \in 1 .. n : s[i] = s[j] => i = j}

RECURSIVE SumSeq(_)
SumSeq(s) == IF s = <<>> THEN 0 ELSE Head(s) + SumSeq(Tail(s))

\* the structures of one CRE file, in file order (identity is positional)
traj2str(n) == [j \in 1 .. n |-> j]

\* list.remove(x): delete the first element equal to x
ListRemoveNothing(l, x) == l
RECURSIVE ListRemove(_, _)
ListRemove(l, x) ==
    IF l = <<>> THEN <<>>
    ELSE IF Head(l) = x THEN Tail(l)
    ELSE <<Head(l)>> \o ListRemove(Tail(l), x)

\* the test "if len(ls_structs):" of the sweep
LaneNonEmptyDropsLast(ls) == Len(ls) > 1
LaneNonEmpty(ls) == Len(ls) > 0

\* np.random.shuffle(worklist): any permutation of the entries
Perms(n) == InjectiveSeqs(1 .. n, n)
ShuffleOutcomes(w) ==
    {[i \in 1 .. Len(w) |-> w[p[i]]] : p \in Perms(Len(w))}

\* ------------------------------------------------------------------ react(): worklist
LaneInputs ==
    /\ mtd_indices \in UNION {InjectiveSeqs(LaneIds, n) : n \in 0 .. MaxLanes}
    /\ cre \in [LaneIds -> 0 .. MaxStructs]
    /\ \A l \in LaneIds : l \notin Range(mtd_indices) => cre[l] = 0

OptIdle ==
    /\ constraints = <<>>
    /\ initial_xyz = "none"
    /\ opc = "idle"
    /\ step = 0
    /\ current = "none"
    /\ scratch = {}
    /\ structures = <<>>
    /\ energies = <<>>
    /\ opt_indices = <<>>
    /\ calls = <<>>

JobIdle ==
    /\ npts = 0
    /\ mtd_index = 0
    /\ jpc = "idle"
    /\ chain = "none"
    /\ fres = <<>>
    /\ bres = <<>>
    /\ dumped = <<>>

PipeIdle ==
    /\ restart = 0
    /\ nthreads = 1
    /\ mtd = [l \in LaneIds |-> 0]
    /\ ppc = "idle"
    /\ jobs = <<>>
    /\ pool = 0
    /\ lane_i = 0
    /\ sub_i = 0
    /\ res_i = 0
    /\ exc = "none"
    /\ exc_job = 0
    /\ converged = <<>>
    /\ errors = <<>>
    /\ cregen_calls = <<>>
    /\ nreact = 0

GenIdle ==
    /\ gpc = "idle"
    /\ gen_structures = <<>>
    /\ gen_indices = <<>>
    /\ gen_i = 0
    /\ curr = 0
    /\ seeds = <<>>
    /\ opt_files = <<>>

MainIdle ==
    /\ overwrite = FALSE
    /\ log_level = 0
    /\ dirs = {}
    /\ ran = <<>>

InitWL ==
    /\ LaneInputs
    /\ OptIdle
    /\ JobIdle
    /\ PipeIdle
    /\ MainIdle
    /\ GenIdle
    /\ all_structures = <<>>
    /\ worklist = <<>>
    /\ it = 0
    /\ wpc = "load"

\* lines 241-256: load every lane's file, then start the first sweep
LoadLanes ==
    /\ wpc = "load"
    /\ all_structures' =
           [i \in 1 .. Len(mtd_indices) |->
               <<mtd_indices[i], traj2str(cre[mtd_indices[i]])>>]
    /\ worklist' = <<>>
    /\ it' = 0
    /\ wpc' = "sweep"
    /\ UNCHANGED <<mtd_indices, cre, optvars, jobvars, pipevars, mainvars, genvars>>

\* lines 258-260: the iterator yields a lane that still has structures
SweepPop ==
    /\ wpc = "sweep"
    /\ it < Len(all_structures)
    /\ LET lane == all_structures[it + 1][1]
           ls_structs == all_structures[it + 1][2]
       IN /\ LaneNonEmpty(ls_structs)
          /\ worklist' = Append(worklist, <<lane, Head(ls_structs)>>)
          /\ all_structures' =
                 [all_structures EXCEPT ![it + 1] = <<lane, Tail(ls_structs)>>]
    /\ it' = it + 1
    /\ UNCHANGED <<mtd_indices, cre, wpc, optvars, jobvars, pipevars, mainvars, genvars>>

\* lines 261-262: the iterator yields an exhausted lane, which is removed
\* from the list being iterated; the iterator still advances
SweepRemove ==
    /\ wpc = "sweep"
    /\ it < Len(all_structures)
    /\ LET lane == all_structures[it + 1][1]
           ls_structs == all_structures[it + 1][2]
       IN /\ ~LaneNonEmpty(ls_structs)
          /\ all_structures' = ListRemove(all_structures, <<lane, ls_structs>>)
    /\ it' = it + 1
    /\ UNCHANGED <<mtd_indices, cre, worklist, wpc, optvars, jobvars, pipevars, mainvars, genvars>>

\* lines 257, 264: the for loop is exhausted and lanes remain: sweep again
SweepAgain ==
    /\ wpc = "sweep"
    /\ it >= Len(all_structures)
    /\ Len(all_structures) # 0
    /\ it' = 0
    /\ UNCHANGED <<mtd_indices, cre, all_structures, worklist, wpc, optvars,
                   jobvars, pipevars, mainvars, genvars>>

\* lines 264-265: the for loop is exhausted and no lane remains: break
SweepBreak ==
    /\ wpc = "sweep"
    /\ it >= Len(all_structures)
    /\ Len(all_structures) = 0
    /\ wpc' = "built"
    /\ UNCHANGED <<mtd_indices, cre, all_structures, worklist, it, optvars,
                   jobvars, pipevars, mainvars, genvars>>

\* line 267
Shuffle ==
    /\ wpc = "built"
    /\ worklist' \in ShuffleOutcomes(worklist)
    /\ wpc' = "shuffled"
    /\ UNCHANGED <<mtd_indices, cre, all_structures, it, optvars, jobvars, pipevars,
                   mainvars, genvars>>

NextWL ==
    \/ LoadLanes
    \/ SweepPop
    \/ SweepRemove
    \/ SweepAgain
    \/ SweepBreak

SpecWL == InitWL /\ [][NextWL]_vars

\* react() runs on the main thread, which keeps executing its loop
SpecWLFair == InitWL /\ [][NextWL]_vars /\ WF_vars(NextWL)

InitShuffle ==
    /\ InitWL
    /\ SumSeq([i \in 1 .. MaxLanes |-> cre[i - 1]]) <= MaxShuffle

NextShuffle ==
    \/ LoadLanes
    \/ SweepPop
    \/ SweepRemove
    \/ SweepAgain
    \/ SweepBreak
    \/ Shuffle

SpecShuffle == InitShuffle /\ [][NextShuffle]_vars


\* ------------------------------------------------------------------ python lists
\* c[k:]
SliceFrom(c, k) ==
    LET n == Len(c)
        s == IF k < 0 THEN (IF k + n < 0 THEN 0 ELSE k + n)
             ELSE (IF k > n THEN n ELSE k)
    IN SubSeq(c, s + 1, n)

\* a start or stop index of a slice with a negative stride, as the
\* interpreter adjusts it
AdjustBack(i, n) ==
    IF i < 0 THEN (IF i + n < 0 THEN -1 ELSE i + n)
    ELSE (IF i >= n THEN n - 1 ELSE i)

\* c[start:stop:-1]
SliceBack(c, start, stop) ==
    LET n == Len(c)
        s == AdjustBack(start, n)
        t == AdjustBack(stop, n)
    IN [j \in 1 .. (IF s > t THEN s - t ELSE 0) |-> c[(s - (j - 1)) + 1]]

\* c[::-1]
Reverse(c) == [j \in 1 .. Len(c) |-> c[Len(c) + 1 - j]]

\* ------------------------------------------------------------------ successive_optimization
EnergyLevels == {0, 1}

\* the constraint sequence built by the caller: one entry per point
ConstraintSeq(n) == [i \in 1 .. n |-> i - 1]

\* the trajectory the engine logs for one optimization: n frames, the last
\* one converged; each frame carries its energy on its comment line
EngineLog(c, st, n, e) ==
    [k \in 1 .. n |-> [chain |-> c, step |-> st, k |-> k, n |-> n, E |-> e + (n - k)]]

\* the one-frame geometry file the caller hands over as initial_xyz
SeedGeometry == [chain |-> "seed", step |-> 0, k |-> 1, n |-> 1, E |-> 0]

\* read_trajectory: the frames and the energies parsed from them
ReadStructures(log) == log
ReadEnergies(log) == [k \in 1 .. Len(log) |-> log[k].E]

\* line 90: the index recorded for a step
RecordedIndexInStep(structs, news) == Len(news) - 1
RecordedIndex(structs, news) == Len(structs) - 1

\* lines 78-85: xtb.optimize(current, current, ...) overwrites the scratch
\* geometry with the last frame of the optimization
OptimizedGeometryNotWritten(cur, log) == cur
OptimizedGeometry(cur, log) == log[Len(log)]

\* lines 73-90: no try statement surrounds the engine call, so an exception
\* raised by it leaves the loop and the function
AfterEngineErrorContinues == "loop"
AfterEngineError == "raised"

\* lines 55-57
OptEmpty ==
    /\ opc = "entry"
    /\ constraints = <<>>
    /\ structures' = <<>>
    /\ energies' = <<>>
    /\ opt_indices' = <<>>
    /\ opc' = "returned"
    /\ UNCHANGED <<constraints, initial_xyz, step, current, scratch, calls,
                   wlvars, jobvars, pipevars, mainvars, genvars>>

\* lines 60-67
OptBegin ==
    /\ opc = "entry"
    /\ constraints # <<>>
    /\ scratch' = scratch \cup {<<chain, "current">>, <<chain, "log">>}
    /\ current' = initial_xyz
    /\ structures' = <<>>
    /\ energies' = <<>>
    /\ opt_indices' = <<>>
    /\ step' = 0
    /\ opc' = "loop"
    /\ UNCHANGED <<constraints, initial_xyz, calls, wlvars, jobvars, pipevars, mainvars, genvars>>

\* lines 73-90: one engine call that succeeds
OptStep ==
    /\ opc = "loop"
    /\ step < Len(constraints)
    /\ \E n \in 1 .. MaxFrames, e \in EnergyLevels :
          LET log == EngineLog(chain, step, n, e)
              news == ReadStructures(log)
              newe == ReadEnergies(log)
          IN /\ calls' = Append(calls, [chain |-> chain,
                                        constraint |-> constraints[step + 1],
                                        input |-> current,
                                        ok |-> TRUE])
             /\ current' = OptimizedGeometry(current, log)
             /\ structures' = structures \o news
             /\ energies' = energies \o newe
             /\ opt_indices' = Append(opt_indices, RecordedIndex(structures \o news, news))
    /\ step' = step + 1
    /\ UNCHANGED <<constraints, initial_xyz, opc, scratch, wlvars, jobvars, pipevars,
                   mainvars, genvars>>

\* lines 78-85: the engine call raises; nothing catches it here
OptStepRaises ==
    /\ opc = "loop"
    /\ step < Len(constraints)
    /\ calls' = Append(calls, [chain |-> chain,
                               constraint |-> constraints[step + 1],
                               input |-> current,
                               ok |-> FALSE])
    /\ opc' = AfterEngineError
    /\ UNCHANGED <<constraints, initial_xyz, step, current, scratch, structures,
                   energies, opt_indices, wlvars, jobvars, pipevars, mainvars, genvars>>

\* lines 94-96
OptReturn ==
    /\ opc = "loop"
    /\ step = Len(constraints)
    /\ scratch' = scratch \ {<<chain, "current">>, <<chain, "log">>}
    /\ opc' = "returned"
    /\ UNCHANGED <<constraints, initial_xyz, step, current, structures, energies,
                   opt_indices, calls, wlvars, jobvars, pipevars, mainvars, genvars>>

\* ------------------------------------------------------------------ reaction_job
\* line 215
ForwardConstraintsSkipFirst(c, k) == SliceFrom(c, k + 1) \o <<"None">>
ForwardConstraints(c, k) == SliceFrom(c, k) \o <<"None">>

\* line 227
BackwardConstraints(c, k) == SliceBack(c, k - 1, -1) \o <<"None">>

\* lines 234-236
MergedStructures(b, f) == Reverse(b) \o f
MergedEnergiesUnreversed(b, f) == b \o f
MergedEnergies(b, f) == Reverse(b) \o f
MergedIndices(b, f) == Reverse(b) \o f

\* a direct call of successive_optimization on the whole constraint sequence
DirectCall ==
    /\ jpc = "direct"
    /\ chain' = "d"
    /\ constraints' = ConstraintSeq(npts)
    /\ initial_xyz' = SeedGeometry
    /\ opc' = "entry"
    /\ jpc' = "called"
    /\ UNCHANGED <<step, current, scratch, structures, energies, opt_indices,
                   calls, npts, mtd_index, fres, bres, dumped, wlvars, pipevars,
                   mainvars, genvars>>

DirectReturn ==
    /\ jpc = "called"
    /\ opc = "returned"
    /\ jpc' = "returned"
    /\ UNCHANGED <<optvars, npts, mtd_index, chain, fres, bres, dumped, wlvars, pipevars,
                   mainvars, genvars>>

\* lines 205-217: write the seed, start the forward chain
JobForward ==
    /\ jpc = "job"
    /\ chain' = "f"
    /\ constraints' = ForwardConstraints(ConstraintSeq(npts), mtd_index)
    /\ initial_xyz' = SeedGeometry
    /\ opc' = "entry"
    /\ jpc' = "forward"
    /\ UNCHANGED <<step, current, scratch, structures, energies, opt_indices,
                   calls, npts, mtd_index, fres, bres, dumped, wlvars, pipevars,
                   mainvars, genvars>>

\* lines 212, 219-229: keep the forward result, seed the backward chain
\* from its first structure
JobBackward ==
    /\ jpc = "forward"
    /\ opc = "returned"
    /\ fres' = <<structures, energies, opt_indices>>
    /\ chain' = "b"
    /\ constraints' = BackwardConstraints(ConstraintSeq(npts), mtd_index)
    /\ initial_xyz' = structures[1]
    /\ opc' = "entry"
    /\ jpc' = "backward"
    /\ UNCHANGED <<step, current, scratch, structures, energies, opt_indices,
                   calls, npts, mtd_index, bres, dumped, wlvars, pipevars, mainvars,
                   genvars>>

\* lines 224, 233-238: keep the backward result and dump the merged lists
JobDump ==
    /\ jpc = "backward"
    /\ opc = "returned"
    /\ bres' = <<structures, energies, opt_indices>>
    /\ dumped' = <<MergedStructures(structures, fres[1]),
                   MergedEnergies(energies, fres[2]),
                   MergedIndices(opt_indices, fres[3])>>
    /\ jpc' = "done"
    /\ UNCHANGED <<optvars, npts, mtd_index, chain, fres, wlvars, pipevars, mainvars, genvars>>

\* an exception of successive_optimization leaves its caller
JobRaises ==
    /\ jpc \in {"called", "forward", "backward"}
    /\ opc = "raised"
    /\ jpc' = "failed"
    /\ UNCHANGED <<optvars, npts, mtd_index, chain, fres, bres, dumped, wlvars, pipevars,
                   mainvars, genvars>>

WLIdle ==
    /\ mtd_indices = <<>>
    /\ cre = [l \in LaneIds |-> 0]
    /\ all_structures = <<>>
    /\ worklist = <<>>
    /\ it = 0
    /\ wpc = "idle"

InitJob ==
    /\ WLIdle
    /\ OptIdle
    /\ PipeIdle
    /\ MainIdle
    /\ GenIdle
    /\ fres = <<>>
    /\ bres = <<>>
    /\ dumped = <<>>
    /\ chain = "none"
    /\ \/ /\ jpc = "direct"
          /\ npts \in 0 .. MaxPts
          /\ mtd_index = 0
       \/ /\ jpc = "job"
          /\ npts \in 1 .. MaxPts
          /\ mtd_index \in 0 .. (npts - 1)

NextJob ==
    \/ DirectCall
    \/ DirectReturn
    \/ JobForward
    \/ JobBackward
    \/ JobDump
    \/ JobRaises
    \/ OptEmpty
    \/ OptBegin
    \/ OptStep
    \/ OptStepRaises
    \/ OptReturn

SpecJob == InitJob /\ [][NextJob]_vars


\* ------------------------------------------------------------------ worker pools
\* ThreadPoolExecutor: a submitted job is pending until a worker of its pool
\* takes it (in submission order), then running, then finished
Finished(st) == st \in {"ok", "raised"}

PoolJobs(p) == {i \in 1 .. Len(jobs) : jobs[i].pool = p}

StageJobs(s) == {i \in 1 .. Len(jobs) : jobs[i].stage = s}

\* futures[n - 1] of pool p
Future(p, n) == CHOOSE i \in PoolJobs(p) : jobs[i].n = n

\* "for f in futures": the future the loop yields after i of them; futures
\* is the list the submissions were appended to
NextFutureLastFirst(p, i) == Future(p, Cardinality(PoolJobs(p)) - i)
NextFuture(p, i) == Future(p, i + 1)

\* a pool of max_workers = nthreads starts a queued job only on a free worker
WorkerFreeOneMore(p) ==
    Cardinality({j \in PoolJobs(p) : jobs[j].st = "running"}) <= nthreads
WorkerFree(p) ==
    Cardinality({j \in PoolJobs(p) : jobs[j].st = "running"}) < nthreads

\* react.py 284, react_utils.py 143: where the job writes its output; a
\* quick optimization hands its result back and is given no path
OutputPathByLane(s, l) ==
    CASE s = "react" -> <<"reactions", l>>
      [] s = "search" -> <<"metadyn", l>>
      [] OTHER -> <<"none", 0>>
OutputPath(s, l) ==
    CASE s = "react" -> <<"reactions", nreact>>
      [] s = "search" -> <<"metadyn", l>>
      [] OTHER -> <<"none", 0>>

\* pool.submit(job)
Submitted(s, l) ==
    Append(jobs, [pool |-> pool, stage |-> s, lane |-> l,
                  n |-> Cardinality(PoolJobs(pool)) + 1, st |-> "pending",
                  path |-> OutputPath(s, l)])

\* leaving "with ThreadPoolExecutor(...) as pool": shutdown(wait=True)
PoolDrainedNoWait(p) == TRUE
PoolDrainedQueueDropped(p) == \A i \in PoolJobs(p) : jobs[i].st # "running"
PoolDrained(p) == \A i \in PoolJobs(p) : Finished(jobs[i].st)

\* f.result() re-raises the exception of a job that raised
ResultRaisesNever(st) == FALSE
ResultRaises(st) == st = "raised"

\* line 193: converged += [f.result()]
CollectedInFront(conv, r) == <<r>> \o conv
Collected(conv, r) == conv \o <<r>>

\* lines 189-193: where the classification puts a finished future
ClassifiedAborts(st) == IF st = "raised" THEN "abort" ELSE "converged"
Classified(st) == IF st = "raised" THEN "errors" ELSE "converged"

\* a worker of the job's pool is free and the job is next in the queue
WorkerStarts ==
    /\ \E i \in 1 .. Len(jobs) :
          /\ jobs[i].st = "pending"
          /\ \A j \in PoolJobs(jobs[i].pool) : j < i => jobs[j].st # "pending"
          /\ WorkerFree(jobs[i].pool)
          /\ jobs' = [jobs EXCEPT ![i].st = "running"]
    /\ UNCHANGED <<restart, nthreads, mtd, ppc, pool, lane_i, sub_i, res_i, exc, exc_job,
                   converged, errors, cregen_calls, nreact, wlvars, optvars, jobvars,
                   mainvars, genvars>>

\* the job returns; a metadynamics job has written its lane's trajectory
WorkerReturns ==
    /\ \E i \in 1 .. Len(jobs) :
          /\ jobs[i].st = "running"
          /\ jobs' = [jobs EXCEPT ![i].st = "ok"]
          /\ IF jobs[i].stage = "search"
             THEN \E k \in 0 .. MaxConf :
                     /\ k + SumSeq([l \in 1 .. MaxLanes |->
                                      IF l - 1 = jobs[i].lane THEN 0 ELSE mtd[l - 1]])
                            <= MaxConf
                     /\ mtd' = [mtd EXCEPT ![jobs[i].lane] = k]
             ELSE mtd' = mtd
    /\ UNCHANGED <<restart, nthreads, ppc, pool, lane_i, sub_i, res_i, exc, exc_job,
                   converged, errors, cregen_calls, nreact, wlvars, optvars, jobvars,
                   mainvars, genvars>>

\* the job raises
WorkerRaises ==
    /\ \E i \in 1 .. Len(jobs) :
          /\ jobs[i].st = "running"
          /\ jobs' = [jobs EXCEPT ![i].st = "raised"]
    /\ UNCHANGED <<restart, nthreads, mtd, ppc, pool, lane_i, sub_i, res_i, exc, exc_job,
                   converged, errors, cregen_calls, nreact, wlvars, optvars, jobvars,
                   mainvars, genvars>>

\* ------------------------------------------------------------------ rsearch: the stages
\* rsearch.py lines 107-110
do_opt == restart < 1
do_stretch == restart < 2
do_mtdAlsoAtThree == restart < 4
do_mtd == restart < 3
do_mtd_refine == restart < 4

\* rsearch.py 254-260, react.py 122-123: enter metadynamics_search
EnterSearch ==
    /\ ppc = "step2"
    /\ do_mtd
    /\ pool' = pool + 1
    /\ lane_i' = 0
    /\ ppc' = "search_submit"
    /\ ran' = Append(ran, "search")
    /\ UNCHANGED <<restart, nthreads, mtd, jobs, sub_i, res_i, exc, exc_job, converged,
                   errors, cregen_calls, nreact, wlvars, optvars, jobvars,
                   overwrite, log_level, dirs, genvars>>

\* rsearch.py 254
SkipSearch ==
    /\ ppc = "step2"
    /\ ~do_mtd
    /\ ppc' = "step2b"
    /\ UNCHANGED <<restart, nthreads, mtd, jobs, pool, lane_i, sub_i, res_i, exc, exc_job,
                   converged, errors, cregen_calls, nreact, wlvars, optvars, jobvars,
                   mainvars, genvars>>

\* react.py 125-132: submit the lane's metadynamics job
SearchSubmit ==
    /\ ppc = "search_submit"
    /\ lane_i < Len(mtd_indices)
    /\ jobs' = Submitted("search", mtd_indices[lane_i + 1])
    /\ lane_i' = lane_i + 1
    /\ UNCHANGED <<restart, nthreads, mtd, ppc, pool, sub_i, res_i, exc, exc_job, converged,
                   errors, cregen_calls, nreact, wlvars, optvars, jobvars, mainvars,
                   genvars>>

\* react.py 125, 138: every lane is submitted; start collecting
SearchSubmitted ==
    /\ ppc = "search_submit"
    /\ lane_i = Len(mtd_indices)
    /\ res_i' = 0
    /\ ppc' = "search_results"
    /\ UNCHANGED <<restart, nthreads, mtd, jobs, pool, lane_i, sub_i, exc, exc_job,
                   converged, errors, cregen_calls, nreact, wlvars, optvars, jobvars,
                   mainvars, genvars>>

\* react.py 138-139: f.result() of the next future, in submission order
SearchResult ==
    /\ ppc = "search_results"
    /\ res_i < Cardinality(PoolJobs(pool))
    /\ LET i == NextFuture(pool, res_i)
           f == jobs[i]
       IN /\ Finished(f.st)
          /\ IF ResultRaises(f.st)
             THEN /\ exc' = "job"
                  /\ exc_job' = i
                  /\ ppc' = "search_exit"
                  /\ res_i' = res_i
             ELSE /\ exc' = exc
                  /\ exc_job' = exc_job
                  /\ ppc' = ppc
                  /\ res_i' = res_i + 1
    /\ UNCHANGED <<restart, nthreads, mtd, jobs, pool, lane_i, sub_i, converged,
                   errors, cregen_calls, nreact, wlvars, optvars, jobvars, mainvars,
                   genvars>>

\* react.py 138: the loop over the futures is exhausted
SearchCollected ==
    /\ ppc = "search_results"
    /\ res_i = Cardinality(PoolJobs(pool))
    /\ ppc' = "search_exit"
    /\ UNCHANGED <<restart, nthreads, mtd, jobs, pool, lane_i, sub_i, res_i, exc, exc_job,
                   converged, errors, cregen_calls, nreact, wlvars, optvars, jobvars,
                   mainvars, genvars>>

\* react.py 122: the with block is left, normally or by the exception
SearchExit ==
    /\ ppc = "search_exit"
    /\ PoolDrained(pool)
    /\ ppc' = IF exc = "none" THEN "step2b" ELSE "failed"
    /\ UNCHANGED <<restart, nthreads, mtd, jobs, pool, lane_i, sub_i, res_i, exc, exc_job,
                   converged, errors, cregen_calls, nreact, wlvars, optvars, jobvars,
                   mainvars, genvars>>

\* rsearch.py 262-269, react.py 152-159: enter metadynamics_refine
EnterRefine ==
    /\ ppc = "step2b"
    /\ do_mtd_refine
    /\ lane_i' = 0
    /\ ppc' = "refine_lane"
    /\ ran' = Append(ran, "refine")
    /\ dirs' = dirs \cup {"CRE"}
    /\ UNCHANGED <<restart, nthreads, mtd, jobs, pool, sub_i, res_i, exc, exc_job, converged,
                   errors, cregen_calls, nreact, wlvars, optvars, jobvars,
                   overwrite, log_level, genvars>>

\* rsearch.py 262
SkipRefine ==
    /\ ppc = "step2b"
    /\ ~do_mtd_refine
    /\ ppc' = "step3"
    /\ UNCHANGED <<restart, nthreads, mtd, jobs, pool, lane_i, sub_i, res_i, exc, exc_job,
                   converged, errors, cregen_calls, nreact, wlvars, optvars, jobvars,
                   mainvars, genvars>>

\* react.py 159-172: load the lane's structures and open its pool
RefineLane ==
    /\ ppc = "refine_lane"
    /\ lane_i < Len(mtd_indices)
    /\ pool' = pool + 1
    /\ sub_i' = 0
    /\ ppc' = "refine_submit"
    /\ UNCHANGED <<restart, nthreads, mtd, jobs, lane_i, res_i, exc, exc_job, converged,
                   errors, cregen_calls, nreact, wlvars, optvars, jobvars, mainvars,
                   genvars>>

\* react.py 159: no lane is left; metadynamics_refine returns
RefineReturns ==
    /\ ppc = "refine_lane"
    /\ lane_i = Len(mtd_indices)
    /\ ppc' = "step3"
    /\ UNCHANGED <<restart, nthreads, mtd, jobs, pool, lane_i, sub_i, res_i, exc, exc_job,
                   converged, errors, cregen_calls, nreact, wlvars, optvars, jobvars,
                   mainvars, genvars>>

\* react.py 173-184: one quick optimization per structure
RefineSubmit ==
    /\ ppc = "refine_submit"
    /\ sub_i < mtd[mtd_indices[lane_i + 1]]
    /\ jobs' = Submitted("refine", mtd_indices[lane_i + 1])
    /\ sub_i' = sub_i + 1
    /\ UNCHANGED <<restart, nthreads, mtd, ppc, pool, lane_i, res_i, exc, exc_job, converged,
                   errors, cregen_calls, nreact, wlvars, optvars, jobvars, mainvars,
                   genvars>>

\* react.py 171, 186-188: the with block is left; start classifying
RefineExit ==
    /\ ppc = "refine_submit"
    /\ sub_i = mtd[mtd_indices[lane_i + 1]]
    /\ PoolDrained(pool)
    /\ converged' = <<>>
    /\ errors' = <<>>
    /\ res_i' = 0
    /\ ppc' = "refine_classify"
    /\ UNCHANGED <<restart, nthreads, mtd, jobs, pool, lane_i, sub_i, exc, exc_job,
                   cregen_calls, nreact, wlvars, optvars, jobvars, mainvars, genvars>>

\* react.py 188-193: f.exception() decides the set of the next future
RefineClassify ==
    /\ ppc = "refine_classify"
    /\ res_i < Cardinality(PoolJobs(pool))
    /\ LET i == NextFuture(pool, res_i)
           f == jobs[i]
           to == Classified(f.st)
       IN /\ errors' = IF to = "errors" THEN Append(errors, f.n) ELSE errors
          /\ converged' = IF to = "converged" THEN Collected(converged, f.n)
                          ELSE converged
          /\ exc' = IF to = "abort" THEN "job" ELSE exc
          /\ exc_job' = IF to = "abort" THEN i ELSE exc_job
          /\ ppc' = IF to = "abort" THEN "failed" ELSE ppc
    /\ res_i' = res_i + 1
    /\ UNCHANGED <<restart, nthreads, mtd, jobs, pool, lane_i, sub_i, cregen_calls,
                   nreact, wlvars, optvars, jobvars, mainvars, genvars>>

\* react.py 202-216: write the converged structures, run the selection,
\* which keeps some of them
RefineSelect ==
    /\ ppc = "refine_classify"
    /\ res_i = Cardinality(PoolJobs(pool))
    /\ cregen_calls' = Append(cregen_calls, mtd_indices[lane_i + 1])
    /\ \E kept \in 0 .. Len(converged) :
          cre' = [cre EXCEPT ![mtd_indices[lane_i + 1]] = kept]
    /\ lane_i' = lane_i + 1
    /\ ppc' = "refine_lane"
    /\ UNCHANGED <<restart, nthreads, mtd, jobs, pool, sub_i, res_i, exc, exc_job, converged,
                   errors, nreact, mtd_indices, all_structures, worklist, it, wpc,
                   optvars, jobvars, mainvars, genvars>>

\* react.py 208-215: the selection call itself raises
RefineSelectRaises ==
    /\ ppc = "refine_classify"
    /\ res_i = Cardinality(PoolJobs(pool))
    /\ cregen_calls' = Append(cregen_calls, mtd_indices[lane_i + 1])
    /\ exc' = "cregen"
    /\ exc_job' = exc_job
    /\ ppc' = "failed"
    /\ UNCHANGED <<restart, nthreads, mtd, jobs, pool, lane_i, sub_i, res_i,
                   converged, errors, nreact, wlvars, optvars, jobvars, mainvars,
                   genvars>>

\* rsearch.py 273-279, react.py 227-241: enter react
EnterReact ==
    /\ ppc = "step3"
    /\ wpc' = "load"
    /\ ppc' = "react_build"
    /\ ran' = Append(ran, "react")
    /\ UNCHANGED <<restart, nthreads, mtd, jobs, pool, lane_i, sub_i, res_i, exc, exc_job,
                   converged, errors, cregen_calls, nreact, mtd_indices, cre,
                   all_structures, worklist, it, optvars, jobvars,
                   overwrite, log_level, dirs, genvars>>

\* react.py 30, 273: os.makedirs without exist_ok raises FileExistsError
\* when the directory is there
makedirs_exist_ok(d) == FALSE
makedirs_raises(d) == d \in dirs

\* react.py 272-275: the worklist is shuffled; make the reactions
\* directory and open the pool
ReactOpenPool ==
    /\ ppc = "react_build"
    /\ wpc = "shuffled"
    /\ ~makedirs_raises("reactions")
    /\ dirs' = dirs \cup {"reactions"}
    /\ nreact' = 0
    /\ pool' = pool + 1
    /\ sub_i' = 0
    /\ ppc' = "react_submit"
    /\ UNCHANGED <<restart, nthreads, mtd, jobs, lane_i, res_i, exc, exc_job, converged,
                   errors, cregen_calls, wlvars, optvars, jobvars,
                   overwrite, log_level, ran, genvars>>

\* react.py 273: os.makedirs raises when the reactions directory exists
ReactDirExists ==
    /\ ppc = "react_build"
    /\ wpc = "shuffled"
    /\ makedirs_raises("reactions")
    /\ exc' = "FileExistsError"
    /\ ppc' = "failed"
    /\ UNCHANGED <<restart, nthreads, mtd, jobs, pool, lane_i, sub_i, res_i, exc_job,
                   converged, errors, cregen_calls, nreact, wlvars, optvars, jobvars,
                   mainvars, genvars>>

\* react.py 277-286: one reaction job per worklist entry
ReactSubmit ==
    /\ ppc = "react_submit"
    /\ sub_i < Len(worklist)
    /\ jobs' = Submitted("react", worklist[sub_i + 1][1])
    /\ nreact' = nreact + 1
    /\ sub_i' = sub_i + 1
    /\ UNCHANGED <<restart, nthreads, mtd, ppc, pool, lane_i, res_i, exc, exc_job, converged,
                   errors, cregen_calls, wlvars, optvars, jobvars, mainvars, genvars>>

\* react.py 277, 288
ReactSubmitted ==
    /\ ppc = "react_submit"
    /\ sub_i = Len(worklist)
    /\ res_i' = 0
    /\ ppc' = "react_results"
    /\ UNCHANGED <<restart, nthreads, mtd, jobs, pool, lane_i, sub_i, exc, exc_job,
                   converged, errors, cregen_calls, nreact, wlvars, optvars, jobvars,
                   mainvars, genvars>>

\* react.py 288-290: f.result() of the next future, in submission order
ReactResult ==
    /\ ppc = "react_results"
    /\ res_i < Cardinality(PoolJobs(pool))
    /\ LET i == NextFuture(pool, res_i)
           f == jobs[i]
       IN /\ Finished(f.st)
          /\ IF ResultRaises(f.st)
             THEN /\ exc' = "job"
                  /\ exc_job' = i
                  /\ ppc' = "react_exit"
                  /\ res_i' = res_i
             ELSE /\ exc' = exc
                  /\ exc_job' = exc_job
                  /\ ppc' = ppc
                  /\ res_i' = res_i + 1
    /\ UNCHANGED <<restart, nthreads, mtd, jobs, pool, lane_i, sub_i, converged,
                   errors, cregen_calls, nreact, wlvars, optvars, jobvars, mainvars,
                   genvars>>

\* react.py 288
ReactCollected ==
    /\ ppc = "react_results"
    /\ res_i = Cardinality(PoolJobs(pool))
    /\ ppc' = "react_exit"
    /\ UNCHANGED <<restart, nthreads, mtd, jobs, pool, lane_i, sub_i, res_i, exc, exc_job,
                   converged, errors, cregen_calls, nreact, wlvars, optvars, jobvars,
                   mainvars, genvars>>

\* react.py 274: the with block is left, normally or by the exception
ReactExit ==
    /\ ppc = "react_exit"
    /\ PoolDrained(pool)
    /\ ppc' = IF exc = "none" THEN "returned" ELSE "failed"
    /\ UNCHANGED <<restart, nthreads, mtd, jobs, pool, lane_i, sub_i, res_i, exc, exc_job,
                   converged, errors, cregen_calls, nreact, wlvars, optvars, jobvars,
                   mainvars, genvars>>

PipeLaneIds == 0 .. (MaxPipeLanes - 1)

\* what the stages skipped at restart level r must have left behind
SkippedOutputs(r) ==
    (IF r >= 1 THEN {"out", "geom", "optimized"} ELSE {})
        \cup (IF r >= 2 THEN {"init"} ELSE {})
        \cup (IF r >= 4 THEN {"CRE"} ELSE {})

\* rsearch.py 184, 223, 254, 262, 273: whether the stage is called
Called(stage) ==
    CASE stage = "opt" -> do_opt
      [] stage = "stretch" -> do_stretch
      [] stage = "search" -> do_mtd
      [] stage = "refine" -> do_mtd_refine
      [] stage = "react" -> TRUE

\* the files a restarted run finds, as many as the bounds allow
FilesLeft(f) ==
    /\ f \in [LaneIds -> 0 .. MaxConf]
    /\ \A l \in LaneIds : l \notin Range(mtd_indices) => f[l] = 0
    /\ SumSeq([l \in 1 .. MaxLanes |-> f[l - 1]]) <= MaxConf

\* rsearch.py 244-252: the lane indices are sorted, distinct and not empty
InitPipe ==
    /\ OptIdle
    /\ JobIdle
    /\ GenIdle
    /\ mtd_indices \in
           {s \in UNION {InjectiveSeqs(PipeLaneIds, n) : n \in 1 .. MaxPipeLanes} :
               \A i \in 1 .. (Len(s) - 1) : s[i] < s[i + 1]}
    /\ restart \in 0 .. 4
    /\ nthreads \in 1 .. MaxThreads
    /\ IF do_mtd THEN mtd = [l \in LaneIds |-> 0] ELSE FilesLeft(mtd)
    /\ IF do_mtd_refine THEN cre = [l \in LaneIds |-> 0] ELSE FilesLeft(cre)
    /\ all_structures = <<>>
    /\ worklist = <<>>
    /\ it = 0
    /\ wpc = "idle"
    /\ ppc = "step2"
    /\ overwrite = FALSE
    /\ log_level = 1
    /\ dirs = {"out", "geom", "optimized", "init"} \cup SkippedOutputs(restart)
    /\ ran = SelectSeq(<<"opt", "stretch">>, Called)
    /\ jobs = <<>>
    /\ pool = 0
    /\ lane_i = 0
    /\ sub_i = 0
    /\ res_i = 0
    /\ exc = "none"
    /\ exc_job = 0
    /\ converged = <<>>
    /\ errors = <<>>
    /\ cregen_calls = <<>>
    /\ nreact = 0

NextPipe ==
    \/ EnterSearch
    \/ SkipSearch
    \/ SearchSubmit
    \/ SearchSubmitted
    \/ SearchResult
    \/ SearchCollected
    \/ SearchExit
    \/ EnterRefine
    \/ SkipRefine
    \/ RefineLane
    \/ RefineReturns
    \/ RefineSubmit
    \/ RefineExit
    \/ RefineClassify
    \/ RefineSelect
    \/ RefineSelectRaises
    \/ EnterReact
    \/ LoadLanes
    \/ SweepPop
    \/ SweepRemove
    \/ SweepAgain
    \/ SweepBreak
    \/ Shuffle
    \/ ReactOpenPool
    \/ ReactSubmit
    \/ ReactSubmitted
    \/ ReactResult
    \/ ReactCollected
    \/ ReactExit
    \/ WorkerStarts
    \/ WorkerReturns
    \/ WorkerRaises

SpecPipe == InitPipe /\ [][NextPipe]_vars

\* ------------------------------------------------------------------ rsearch: the main program
MaxMainLanes == 2
MaxMainThreads == 1
MaxIndexArgs == 2
MainLaneIds == 0 .. (MaxMainLanes - 1)

\* args.log_level; levels above 1 differ from 1 only in the delete flag
\* handed to the engine driver
LogLevels == {0, 1}

\* what a run leaves in its output directory, in the order it is made
Outputs == <<"out", "geom", "optimized", "init", "CRE", "reactions">>
PreviousRun(k) == {Outputs[i] : i \in 1 .. k}

\* the lists -mtdi can hold: any order, repeats allowed, never empty
IndexLists == UNION {[1 .. n -> MainLaneIds] : n \in 1 .. MaxIndexArgs}

\* line 241: the positions at which the reactant was found, every third
FoundLists ==
    {s \in UNION {[1 .. n -> MainLaneIds] : n \in 0 .. MaxMainLanes} :
        \A i \in 1 .. (Len(s) - 1) : s[i] < s[i + 1]}

\* line 245: sorted(list(set(mtd_indices)))
RECURSIVE SortSet(_)
SortSet(S) ==
    IF S = {} THEN <<>>
    ELSE LET m == CHOOSE x \in S : \A y \in S : x <= y
         IN <<m>> \o SortSet(S \ {m})
SortedSet(l) == SortSet(Range(l))

\* line 246: the test that ends the run
NoLanesNever(ix) == FALSE
NoLanes(ix) == Len(ix) = 0

\* lines 124-136: what is done about an output directory that exists
OutDirPolicyOverwriteFirst(r, ow) ==
    IF ow THEN "overwrite" ELSE IF r # 0 THEN "keep" ELSE "exit"
OutDirPolicy(r, ow) ==
    IF r # 0 THEN "keep" ELSE IF ow THEN "overwrite" ELSE "exit"

\* the files of an earlier run that a stage skipped by this run reads
FilesLeftMain(f) ==
    /\ f \in [LaneIds -> 0 .. MaxConf]
    /\ \A l \in LaneIds : l \notin MainLaneIds => f[l] = 0
    /\ SumSeq([l \in 1 .. MaxLanes |-> f[l - 1]]) <= MaxConf

\* the state parse_args leaves: the output directory does not exist, or
\* it holds what an earlier run had made when it ended; a restart level
\* is given only over a directory that holds what the skipped stages read
InitMain ==
    /\ OptIdle
    /\ JobIdle
    /\ GenIdle
    /\ restart \in 0 .. 4
    /\ nthreads \in 1 .. MaxMainThreads
    /\ overwrite \in BOOLEAN
    /\ log_level \in LogLevels
    /\ \E k \in 0 .. Len(Outputs) :
          /\ dirs = PreviousRun(k)
          /\ SkippedOutputs(restart) \subseteq dirs
    /\ IF do_mtd THEN mtd = [l \in LaneIds |-> 0] ELSE FilesLeftMain(mtd)
    /\ IF do_mtd_refine THEN cre = [l \in LaneIds |-> 0]
       ELSE /\ FilesLeftMain(cre)
            /\ \A l \in LaneIds : cre[l] <= mtd[l]
    /\ mtd_indices = <<>>
    /\ all_structures = <<>>
    /\ worklist = <<>>
    /\ it = 0
    /\ wpc = "idle"
    /\ ppc = "start"
    /\ ran = <<>>
    /\ jobs = <<>>
    /\ pool = 0
    /\ lane_i = 0
    /\ sub_i = 0
    /\ res_i = 0
    /\ exc = "none"
    /\ exc_job = 0
    /\ converged = <<>>
    /\ errors = <<>>
    /\ cregen_calls = <<>>
    /\ nreact = 0

\* lines 122-123: the output directory is made
MakeOutDir ==
    /\ ppc = "start"
    /\ "out" \notin dirs
    /\ dirs' = {"out"}
    /\ ppc' = "geom"
    /\ UNCHANGED <<restart, nthreads, mtd, jobs, pool, lane_i, sub_i, res_i, exc,
                   exc_job, converged, errors, cregen_calls, nreact, wlvars, optvars,
                   jobvars, overwrite, log_level, ran, genvars>>

\* lines 124-127: it exists and this is a restart
KeepOutDir ==
    /\ ppc = "start"
    /\ "out" \in dirs
    /\ OutDirPolicy(restart, overwrite) = "keep"
    /\ ppc' = "geom"
    /\ UNCHANGED <<restart, nthreads, mtd, jobs, pool, lane_i, sub_i, res_i, exc,
                   exc_job, converged, errors, cregen_calls, nreact, wlvars, optvars,
                   jobvars, mainvars, genvars>>

\* lines 128-133: it exists and -w is given: rmtree, then makedirs
OverwriteOutDir ==
    /\ ppc = "start"
    /\ "out" \in dirs
    /\ OutDirPolicy(restart, overwrite) = "overwrite"
    /\ dirs' = {"out"}
    /\ mtd' = [l \in LaneIds |-> 0]
    /\ cre' = [l \in LaneIds |-> 0]
    /\ ppc' = "geom"
    /\ UNCHANGED <<restart, nthreads, jobs, pool, lane_i, sub_i, res_i, exc, exc_job,
                   converged, errors, cregen_calls, nreact, mtd_indices,
                   all_structures, worklist, it, wpc, optvars, jobvars,
                   overwrite, log_level, ran, genvars>>

\* lines 134-136: it exists and neither is given: SystemExit(-1)
RefuseOutDir ==
    /\ ppc = "start"
    /\ "out" \in dirs
    /\ OutDirPolicy(restart, overwrite) = "exit"
    /\ exc' = "SystemExit"
    /\ ppc' = "exited"
    /\ UNCHANGED <<restart, nthreads, mtd, jobs, pool, lane_i, sub_i, res_i, exc_job,
                   converged, errors, cregen_calls, nreact, wlvars, optvars, jobvars,
                   mainvars, genvars>>

\* lines 138-139, 151: the starting geometry is copied into the directory
CopyGeometry ==
    /\ ppc = "geom"
    /\ do_opt
    /\ dirs' = dirs \cup {"geom"}
    /\ ppc' = "opt"
    /\ UNCHANGED <<restart, nthreads, mtd, jobs, pool, lane_i, sub_i, res_i, exc,
                   exc_job, converged, errors, cregen_calls, nreact, wlvars, optvars,
                   jobvars, overwrite, log_level, ran, genvars>>

\* lines 140-141, 151: the copy of the earlier run is read
ReuseGeometry ==
    /\ ppc = "geom"
    /\ ~do_opt
    /\ ppc' = "opt"
    /\ UNCHANGED <<restart, nthreads, mtd, jobs, pool, lane_i, sub_i, res_i, exc,
                   exc_job, converged, errors, cregen_calls, nreact, wlvars, optvars,
                   jobvars, mainvars, genvars>>

\* lines 184-193: the initial optimization
InitialOpt ==
    /\ ppc = "opt"
    /\ do_opt
    /\ ran' = Append(ran, "opt")
    /\ dirs' = dirs \cup {"optimized"}
    /\ ppc' = "stretch"
    /\ UNCHANGED <<restart, nthreads, mtd, jobs, pool, lane_i, sub_i, res_i, exc,
                   exc_job, converged, errors, cregen_calls, nreact, wlvars, optvars,
                   jobvars, overwrite, log_level, genvars>>

\* lines 186-189: the engine raises
InitialOptRaises ==
    /\ ppc = "opt"
    /\ do_opt
    /\ ran' = Append(ran, "opt")
    /\ exc' = "engine"
    /\ ppc' = "failed"
    /\ UNCHANGED <<restart, nthreads, mtd, jobs, pool, lane_i, sub_i, res_i, exc_job,
                   converged, errors, cregen_calls, nreact, wlvars, optvars, jobvars,
                   overwrite, log_level, dirs, genvars>>

\* lines 184, 193
SkipInitialOpt ==
    /\ ppc = "opt"
    /\ ~do_opt
    /\ ppc' = "stretch"
    /\ UNCHANGED <<restart, nthreads, mtd, jobs, pool, lane_i, sub_i, res_i, exc,
                   exc_job, converged, errors, cregen_calls, nreact, wlvars, optvars,
                   jobvars, mainvars, genvars>>

\* rsearch.py 223-228, react.py 29-106: generate_initial_structures makes
\* its directory and fills it
GenerateInitial ==
    /\ ppc = "stretch"
    /\ do_stretch
    /\ ~makedirs_raises("init")
    /\ ran' = Append(ran, "stretch")
    /\ dirs' = dirs \cup {"init"}
    /\ ppc' = "indices"
    /\ UNCHANGED <<restart, nthreads, mtd, jobs, pool, lane_i, sub_i, res_i, exc,
                   exc_job, converged, errors, cregen_calls, nreact, wlvars, optvars,
                   jobvars, overwrite, log_level, genvars>>

\* react.py 30: os.makedirs raises when the init directory exists
GenerateInitialDirExists ==
    /\ ppc = "stretch"
    /\ do_stretch
    /\ makedirs_raises("init")
    /\ ran' = Append(ran, "stretch")
    /\ exc' = "FileExistsError"
    /\ ppc' = "failed"
    /\ UNCHANGED <<restart, nthreads, mtd, jobs, pool, lane_i, sub_i, res_i, exc_job,
                   converged, errors, cregen_calls, nreact, wlvars, optvars, jobvars,
                   overwrite, log_level, dirs, genvars>>

\* react.py 30-92: the directory is made, then an engine call raises
GenerateInitialRaises ==
    /\ ppc = "stretch"
    /\ do_stretch
    /\ ~makedirs_raises("init")
    /\ ran' = Append(ran, "stretch")
    /\ dirs' = dirs \cup {"init"}
    /\ exc' = "engine"
    /\ ppc' = "failed"
    /\ UNCHANGED <<restart, nthreads, mtd, jobs, pool, lane_i, sub_i, res_i, exc_job,
                   converged, errors, cregen_calls, nreact, wlvars, optvars, jobvars,
                   overwrite, log_level, genvars>>

\* rsearch.py 223
SkipGenerateInitial ==
    /\ ppc = "stretch"
    /\ ~do_stretch
    /\ ppc' = "indices"
    /\ UNCHANGED <<restart, nthreads, mtd, jobs, pool, lane_i, sub_i, res_i, exc,
                   exc_job, converged, errors, cregen_calls, nreact, wlvars, optvars,
                   jobvars, mainvars, genvars>>

\* lines 233-241: the list given with -mtdi, or else the one computed from
\* the init directory
RawIndices == IndexLists \cup FoundLists

\* lines 233-249: the lanes are chosen, sorted and freed of repeats
SelectIndices ==
    /\ ppc = "indices"
    /\ \E raw \in RawIndices :
          /\ ~NoLanes(SortedSet(raw))
          /\ mtd_indices' = SortedSet(raw)
    /\ ppc' = "step2"
    /\ UNCHANGED <<restart, nthreads, mtd, jobs, pool, lane_i, sub_i, res_i, exc,
                   exc_job, converged, errors, cregen_calls, nreact, cre,
                   all_structures, worklist, it, wpc, optvars, jobvars, mainvars,
                   genvars>>

\* lines 246-249: no lane is left: SystemExit(-1)
NoIndices ==
    /\ ppc = "indices"
    /\ \E raw \in RawIndices :
          /\ NoLanes(SortedSet(raw))
          /\ mtd_indices' = SortedSet(raw)
    /\ exc' = "SystemExit"
    /\ ppc' = "exited"
    /\ UNCHANGED <<restart, nthreads, mtd, jobs, pool, lane_i, sub_i, res_i, exc_job,
                   converged, errors, cregen_calls, nreact, cre, all_structures,
                   worklist, it, wpc, optvars, jobvars, mainvars, genvars>>

\* line 282 with the log file of line 145
CloseLog ==
    /\ ppc = "returned"
    /\ log_level > 0
    /\ ppc' = "finished"
    /\ UNCHANGED <<restart, nthreads, mtd, jobs, pool, lane_i, sub_i, res_i, exc,
                   exc_job, converged, errors, cregen_calls, nreact, wlvars, optvars,
                   jobvars, mainvars, genvars>>

\* line 282 with logfile = None of line 149: None has no close()
CloseLogRaises ==
    /\ ppc = "returned"
    /\ ~(log_level > 0)
    /\ exc' = "AttributeError"
    /\ ppc' = "failed"
    /\ UNCHANGED <<restart, nthreads, mtd, jobs, pool, lane_i, sub_i, res_i, exc_job,
                   converged, errors, cregen_calls, nreact, wlvars, optvars, jobvars,
                   mainvars, genvars>>

\* the status the interpreter ends with: 0 at the end of the script, 1 for
\* an exception nothing caught, -1 taken modulo 256 for SystemExit(-1)
Ended == ppc \in {"finished", "failed", "exited"}
ExitStatus ==
    CASE ppc = "finished" -> 0
      [] ppc = "failed" -> 1
      [] ppc = "exited" -> (-1) % 256

NextMain ==
    \/ MakeOutDir
    \/ KeepOutDir
    \/ OverwriteOutDir
    \/ RefuseOutDir
    \/ CopyGeometry
    \/ ReuseGeometry
    \/ InitialOpt
    \/ InitialOptRaises
    \/ SkipInitialOpt
    \/ GenerateInitial
    \/ GenerateInitialDirExists
    \/ GenerateInitialRaises
    \/ SkipGenerateInitial
    \/ SelectIndices
    \/ NoIndices
    \/ EnterSearch
    \/ SkipSearch
    \/ SearchSubmit
    \/ SearchSubmitted
    \/ SearchResult
    \/ SearchCollected
    \/ SearchExit
    \/ EnterRefine
    \/ SkipRefine
    \/ RefineLane
    \/ RefineReturns
    \/ RefineSubmit
    \/ RefineExit
    \/ RefineClassify
    \/ RefineSelect
    \/ RefineSelectRaises
    \/ EnterReact
    \/ LoadLanes
    \/ SweepPop
    \/ SweepRemove
    \/ SweepAgain
    \/ SweepBreak
    \/ Shuffle
    \/ ReactOpenPool
    \/ ReactDirExists
    \/ ReactSubmit
    \/ ReactSubmitted
    \/ ReactResult
    \/ ReactCollected
    \/ ReactExit
    \/ CloseLog
    \/ CloseLogRaises
    \/ WorkerStarts
    \/ WorkerReturns
    \/ WorkerRaises

SpecMain == InitMain /\ [][NextMain]_vars

\* ------------------------------------------------------------------ generate_initial_structures
MaxPool == 2

\* react.py 61, 98-101: the cursor after a lane has taken its candidate
NextCursorNoWrap(c, P) == c + 1
NextCursor(c, P) == IF c + 1 = P THEN 0 ELSE c + 1

\* the function is called over an output directory in which the init
\* directory exists or not; its lanes are parameters["mtdi"] or the arange
\* of line 57
InitGen ==
    /\ WLIdle
    /\ OptIdle
    /\ JobIdle
    /\ PipeIdle
    /\ overwrite = FALSE
    /\ log_level = 0
    /\ ran = <<>>
    /\ dirs \in {{"out", "geom", "optimized"}, {"out", "geom", "optimized", "init"}}
    /\ gpc = "entry"
    /\ gen_structures = <<>>
    /\ gen_indices \in UNION {InjectiveSeqs(LaneIds, n) : n \in 0 .. MaxLanes}
    /\ gen_i = 0
    /\ curr = 0
    /\ seeds = <<>>
    /\ opt_files = <<>>

\* lines 29-61: the directory is made, the metadynamics run leaves its
\* trajectory, which is shuffled
GenBegin ==
    /\ gpc = "entry"
    /\ ~makedirs_raises("init")
    /\ dirs' = dirs \cup {"init"}
    /\ \E P \in 0 .. MaxPool : gen_structures' \in ShuffleOutcomes(traj2str(P))
    /\ curr' = 0
    /\ gen_i' = 0
    /\ gpc' = "loop"
    /\ UNCHANGED <<wlvars, optvars, jobvars, pipevars, overwrite, log_level, ran,
                   gen_indices, seeds, opt_files>>

\* line 30: os.makedirs raises when the init directory exists
GenDirExists ==
    /\ gpc = "entry"
    /\ makedirs_raises("init")
    /\ gpc' = "raised"
    /\ exc' = "FileExistsError"
    /\ UNCHANGED <<wlvars, optvars, jobvars, restart, nthreads, mtd, ppc, jobs,
                   pool, lane_i, sub_i, res_i, exc_job, converged, errors, cregen_calls,
                   nreact, mainvars, gen_structures,
                   gen_indices, gen_i, curr, seeds, opt_files>>

\* lines 30-48: the directory is made, the metadynamics run raises
GenMtdRaises ==
    /\ gpc = "entry"
    /\ ~makedirs_raises("init")
    /\ dirs' = dirs \cup {"init"}
    /\ gpc' = "raised"
    /\ exc' = "engine"
    /\ UNCHANGED <<wlvars, optvars, jobvars, restart, nthreads, mtd, ppc, jobs,
                   pool, lane_i, sub_i, res_i, exc_job, converged, errors, cregen_calls,
                   nreact, overwrite, log_level, ran,
                   gen_structures, gen_indices, gen_i, curr, seeds, opt_files>>

\* lines 62-101: one lane: take the candidate under the cursor, optimize,
\* stretch, write the lane's opt file, move the cursor
GenLane ==
    /\ gpc = "loop"
    /\ gen_i < Len(gen_indices)
    /\ curr < Len(gen_structures)
    /\ seeds' = Append(seeds, gen_structures[curr + 1])
    /\ opt_files' = Append(opt_files, gen_indices[gen_i + 1])
    /\ curr' = NextCursor(curr, Len(gen_structures))
    /\ gen_i' = gen_i + 1
    /\ UNCHANGED <<wlvars, optvars, jobvars, pipevars, mainvars, gpc, gen_structures,
                   gen_indices>>

\* lines 63-84: the candidate is taken, then an engine call raises
GenLaneRaises ==
    /\ gpc = "loop"
    /\ gen_i < Len(gen_indices)
    /\ curr < Len(gen_structures)
    /\ seeds' = Append(seeds, gen_structures[curr + 1])
    /\ gpc' = "raised"
    /\ exc' = "engine"
    /\ UNCHANGED <<wlvars, optvars, jobvars, restart, nthreads, mtd, ppc, jobs,
                   pool, lane_i, sub_i, res_i, exc_job, converged, errors, cregen_calls,
                   nreact, mainvars, gen_structures,
                   gen_indices, gen_i, curr, opt_files>>

\* line 63: structures[curr] past the end of the list raises IndexError
GenNoCandidate ==
    /\ gpc = "loop"
    /\ gen_i < Len(gen_indices)
    /\ ~(curr < Len(gen_structures))
    /\ gpc' = "raised"
    /\ exc' = "IndexError"
    /\ UNCHANGED <<wlvars, optvars, jobvars, restart, nthreads, mtd, ppc, jobs,
                   pool, lane_i, sub_i, res_i, exc_job, converged, errors, cregen_calls,
                   nreact, mainvars, gen_structures,
                   gen_indices, gen_i, curr, seeds, opt_files>>

\* lines 62, 106: no lane is left
GenReturn ==
    /\ gpc = "loop"
    /\ gen_i = Len(gen_indices)
    /\ gpc' = "returned"
    /\ UNCHANGED <<wlvars, optvars, jobvars, pipevars, mainvars, gen_structures,
                   gen_indices, gen_i, curr, seeds, opt_files>>

NextGen ==
    \/ GenBegin
    \/ GenDirExists
    \/ GenMtdRaises
    \/ GenLane
    \/ GenLaneRaises
    \/ GenNoCandidate
    \/ GenReturn

SpecGen == InitGen /\ [][NextGen]_vars


\* ------------------------------------------------------------------ claims: worklist
\* the (lane, structure) pairs loaded from the lanes' files
LoadedPairs == {<<l, j>> : l \in Range(mtd_indices), j \in 1 .. MaxStructs} \cap
               {e \in LaneIds \X (1 .. MaxStructs) : e[2] <= cre[e[1]]}

Occurrences(w, e) == Cardinality({i \in 1 .. Len(w) : w[i] = e})

Position(w, e) == CHOOSE i \in 1 .. Len(w) : w[i] = e

\* C1: round-robin fairness of the worklist before it is shuffled: for every
\* j >= 1 and lanes A, B, if A holds at least j structures then A's j-th
\* structure appears before B's (j+1)-th structure.
C1_RoundRobinFairness ==
    wpc = "built" =>
        \A a, b \in Range(mtd_indices) : \A j \in 1 .. MaxStructs :
            (cre[a] >= j /\ cre[b] >= j + 1) =>
                Position(worklist, <<a, j>>) < Position(worklist, <<b, j + 1>>)

\* C2: the front structure of every non-empty lane appears in the pre-shuffle
\* worklist before the second or later structure of any lane, for all lane
\* sizes n_i >= 0 and every lane order.
C2_FrontsFirst ==
    wpc = "built" =>
        \A a, b \in Range(mtd_indices) : \A j \in 2 .. MaxStructs :
            (cre[a] >= 1 /\ cre[b] >= j) =>
                Position(worklist, <<a, 1>>) < Position(worklist, <<b, j>>)

\* C3: before and after the shuffle the worklist holds every loaded
\* (lane, structure) pair exactly once and its length is the sum of the lane
\* list lengths.
C3_WorklistIsLoadedPairs ==
    wpc \in {"built", "shuffled"} =>
        /\ Len(worklist) = SumSeq([i \in 1 .. Len(mtd_indices) |-> cre[mtd_indices[i]]])
        /\ \A e \in LoadedPairs : Occurrences(worklist, e) = 1
        /\ Range(worklist) \subseteq LoadedPairs

\* C3 witness: a shuffle that changed the order of a worklist fed by two lanes
C3_Witness ==
    /\ wpc = "shuffled"
    /\ Len(mtd_indices) >= 2
    /\ Len(worklist) >= 3
    /\ worklist[1][2] > 1

\* ------------------------------------------------------------------ claims: optimizer, reaction job
\* the constraints of the engine calls made for chain c, in call order
RECURSIVE CallsOf(_, _)
CallsOf(cs, c) ==
    IF cs = <<>> THEN <<>>
    ELSE (IF Head(cs).chain = c THEN <<Head(cs).constraint>> ELSE <<>>)
         \o CallsOf(Tail(cs), c)

\* C4: on success successive_optimization returns one converged index per
\* constraint, strictly increasing, the i-th being the position in the
\* flattened structure list of the last structure contributed by step i; for
\* an empty constraint list it returns three empty lists, calls no engine
\* and creates no scratch file.
C4_ConvergedIndices ==
    opc = "returned" =>
        /\ Len(opt_indices) = Len(constraints)
        /\ \A i \in 1 .. Len(opt_indices) :
              LET p == opt_indices[i] + 1
              IN /\ p \in 1 .. Len(structures)
                 /\ structures[p].chain = chain
                 /\ structures[p].step = i - 1
                 /\ structures[p].k = structures[p].n
                 /\ \A q \in 1 .. Len(structures) :
                        (structures[q].chain = chain /\ structures[q].step = i - 1)
                            => q <= p
                 /\ i > 1 => opt_indices[i - 1] < opt_indices[i]
        /\ constraints = <<>> =>
              /\ structures = <<>> /\ energies = <<>> /\ opt_indices = <<>>
              /\ CallsOf(calls, chain) = <<>>
              /\ scratch = {}

\* C4 witness: a successful call over several constraints in which a step
\* after the first contributed more than one structure
C4_Witness ==
    /\ opc = "returned"
    /\ Len(constraints) >= 2
    /\ \E p \in 1 .. Len(structures) : structures[p].step >= 1 /\ structures[p].n >= 2

\* C5: the backward chain of a reaction job for lane index k runs over the
\* constraints k-1, k-2, ..., 0 in that order and then one unconstrained
\* (None) step: k+1 optimization steps.
C5_BackwardChain ==
    jpc = "done" =>
        CallsOf(calls, "b") = [j \in 1 .. mtd_index |-> mtd_index - j] \o <<"None">>

\* C6: the forward chain of a reaction job for lane index k over N
\* constraints runs over the constraints k, k+1, ..., N-1 in that order and
\* then one unconstrained (None) step: N-k+1 optimization steps.
C6_ForwardChain ==
    jpc \in {"backward", "done"} =>
        /\ CallsOf(calls, "f") =
               [j \in 1 .. (npts - mtd_index) |-> mtd_index + j - 1] \o <<"None">>
        /\ Len(CallsOf(calls, "f")) = npts - mtd_index + 1

\* C6 witness: a finished job of a lane that is neither the first nor the
\* last point of the constraint sequence
C6_Witness ==
    /\ jpc = "done"
    /\ mtd_index >= 1
    /\ npts - mtd_index >= 2

\* C7: the merged trajectory a reaction job writes is the backward
\* trajectory reversed followed by the forward trajectory, and the i-th
\* merged energy is the energy of the i-th merged structure.
C7_MergedTrajectory ==
    jpc = "done" =>
        LET b == bres[1]
            f == fres[1]
        IN /\ Len(dumped[1]) = Len(b) + Len(f)
           /\ \A i \in 1 .. Len(b) : dumped[1][i] = b[Len(b) + 1 - i]
           /\ \A i \in 1 .. Len(f) : dumped[1][Len(b) + i] = f[i]
           /\ Len(dumped[2]) = Len(dumped[1])
           /\ \A i \in 1 .. Len(dumped[1]) : dumped[2][i] = dumped[1][i].E

\* C7 witness: forward [f0,f1,f2] and backward [b0,b1] were merged
C7_Witness ==
    /\ jpc = "done"
    /\ Len(fres[1]) = 3
    /\ Len(bres[1]) = 2
    /\ dumped[1] = <<bres[1][2], bres[1][1], fres[1][1], fres[1][2], fres[1][3]>>

\* ------------------------------------------------------------------ claims: stages and pools
Raised(p) == {i \in PoolJobs(p) : jobs[i].st = "raised"}

AfterRefine == {"step3", "react_build", "react_submit", "react_results",
                "react_exit", "returned"}

\* C8: in metadynamics_refine, of the M quick optimizations submitted for a
\* lane, K of which raise, the converged set gets M-K and the errored set K,
\* every job is in exactly one of them, and no job exception aborts the
\* stage: the selection call of the lane is made and later lanes are processed.
C8_RefinePartition ==
    /\ (ppc = "refine_classify" /\ res_i = Cardinality(PoolJobs(pool))) =>
          LET M == Cardinality(PoolJobs(pool))
              K == Cardinality(Raised(pool))
          IN /\ M = mtd[mtd_indices[lane_i + 1]]
             /\ Len(converged) = M - K
             /\ Len(errors) = K
             /\ Range(errors) = {jobs[i].n : i \in Raised(pool)}
             /\ Range(converged) = {jobs[i].n : i \in PoolJobs(pool) \ Raised(pool)}
             /\ Range(converged) \cap Range(errors) = {}
    /\ (ppc = "failed" /\ exc = "job") =>
          \A i \in PoolJobs(pool) : jobs[i].stage # "refine"
    /\ (do_mtd_refine /\ ppc \in AfterRefine) => cregen_calls = mtd_indices

\* C8 witness: with a later lane still to come, the two jobs of a lane are
\* classified, the first having raised and the second converged
C8_Witness ==
    /\ ppc = "refine_classify"
    /\ res_i = Cardinality(PoolJobs(pool))
    /\ lane_i + 1 < Len(mtd_indices)
    /\ converged = <<2>>
    /\ errors = <<1>>

\* C9: if any submitted reaction job raises, react() raises: it never
\* returns normally.
C9_ReactFailFast ==
    (\E i \in StageJobs("react") : jobs[i].st = "raised") =>
        /\ ppc # "returned"
        /\ ppc = "failed" => exc = "job"

\* C9 witness: react() has raised because of a job that was not the first
\* one submitted, the first one having succeeded
C9_Witness ==
    /\ ppc = "failed"
    /\ \E i, j \in StageJobs("react") :
          /\ jobs[i].n = 1 /\ jobs[i].st = "ok"
          /\ jobs[j].n = 2 /\ jobs[j].st = "raised"

StageNo(s) == CASE s = "search" -> 1 [] s = "refine" -> 2 [] s = "react" -> 3

\* the positions of the main thread inside the with block of a stage's pool
InPool(s) ==
    CASE s = "search" -> {"search_submit", "search_results", "search_exit"}
      [] s = "refine" -> {"refine_submit"}
      [] s = "react" -> {"react_submit", "react_results", "react_exit"}

\* C10: stage barrier: no job of a stage starts while a job of an earlier
\* stage is unfinished, and a stage returns or raises only after every job
\* it submitted to its pool has finished.
C10_StageBarrier ==
    /\ \A i, j \in 1 .. Len(jobs) :
          (StageNo(jobs[i].stage) < StageNo(jobs[j].stage) /\ jobs[j].st # "pending")
              => Finished(jobs[i].st)
    /\ \A s \in {"search", "refine", "react"} :
          ppc \notin InPool(s) => \A i \in StageJobs(s) : Finished(jobs[i].st)

\* C10 witness: a reaction job runs after jobs of both earlier stages
C10_Witness ==
    /\ \E i \in StageJobs("react") : jobs[i].st = "running"
    /\ StageJobs("search") # {}
    /\ StageJobs("refine") # {}
    /\ nthreads >= 2

\* C10 witness of the raising side: a stage has raised after a job that was
\* submitted after the failing one had run to its end
C10_RaisedAfterDrain ==
    /\ ppc = "failed"
    /\ exc = "job"
    /\ \E i, j \in StageJobs("search") :
          jobs[i].n = 1 /\ jobs[i].st = "raised" /\ jobs[j].n = 2 /\ jobs[j].st = "ok"

\* ------------------------------------------------------------------ C14, C16, C17
\* C14: scratch files created by a call of successive_optimization are
\* removed by the time the call ends, whether it returns or an engine step
\* raises: after the call none of its scratch files remains.
C14_ScratchRemoved ==
    opc \in {"returned", "raised"} => \A f \in scratch : f[1] # chain

\* the engine invocations of chain c, in the order they were made
RECURSIVE ChainCalls(_, _)
ChainCalls(cs, c) ==
    IF cs = <<>> THEN <<>>
    ELSE (IF Head(cs).chain = c THEN <<Head(cs)>> ELSE <<>>)
         \o ChainCalls(Tail(cs), c)

\* C16: chained optimization: the engine call of step 0 takes a copy of the
\* initial geometry, the engine call of every later step takes exactly the
\* geometry the step before it wrote, and the steps run in constraint order.
C16_ChainedOptimization ==
    LET cc == ChainCalls(calls, chain)
    IN /\ Len(cc) <= Len(constraints)
       /\ opc = "returned" => Len(cc) = Len(constraints)
       /\ \A j \in 1 .. Len(cc) :
             /\ cc[j].constraint = constraints[j]
             /\ j = 1 => cc[j].input = initial_xyz
             /\ j > 1 =>
                   /\ cc[j].input \in Range(structures)
                   /\ cc[j].input.chain = chain
                   /\ cc[j].input.step = j - 2
                   /\ cc[j].input.k = cc[j].input.n

\* C16 witness: a call over three constraints has returned, and its second
\* step produced more than one frame
C16_Witness ==
    /\ opc = "returned"
    /\ chain = "d"
    /\ Len(constraints) = 3
    /\ \E q \in 1 .. Len(structures) : structures[q].step = 1 /\ structures[q].n = 2

\* C17: when the engine call of a step fails no later engine call is made,
\* the caller does not go on, and no partial result reaches it; a failure in
\* the forward chain of a reaction job means that the backward chain is
\* never run and nothing is dumped.
C17_FailurePropagates ==
    \A j \in 1 .. Len(calls) :
        ~calls[j].ok =>
            /\ j = Len(calls)
            /\ opc = "raised"
            /\ calls[j].chain = chain
            /\ jpc \in {"called", "forward", "backward", "failed"}
            /\ dumped = <<>>
            /\ chain = "f" => /\ fres = <<>>
                              /\ bres = <<>>
                              /\ ChainCalls(calls, "b") = <<>>
            /\ chain = "b" => bres = <<>>

\* C17 witness: the forward chain of a reaction job has failed at a step
\* after its first while later steps were still to come
C17_Witness ==
    /\ jpc = "failed"
    /\ chain = "f"
    /\ Len(calls) >= 2
    /\ Len(constraints) > Len(calls)
    /\ ~calls[Len(calls)].ok

\* ------------------------------------------------------------------ C15
\* C15: the worklist builder of react() terminates for every finite list
\* of lanes, lanes that start empty and the empty list of lanes included,
\* and when it has terminated no lane is left in consideration and every
\* lane's structures have all been moved to the worklist.
C15_BuilderTerminates ==
    /\ <>(wpc = "built")
    /\ [](wpc = "built" =>
            /\ all_structures = <<>>
            /\ Len(worklist) =
                   SumSeq([i \in 1 .. Len(mtd_indices) |-> cre[mtd_indices[i]]]))

\* C15 witness: the builder has ended for three lanes of which the second
\* started empty and the other two held several structures
C15_Witness ==
    /\ wpc = "built"
    /\ Len(mtd_indices) = 3
    /\ cre[mtd_indices[2]] = 0
    /\ cre[mtd_indices[1]] >= 2
    /\ cre[mtd_indices[3]] >= 2

\* ------------------------------------------------------------------ C18, C19, C20
\* C18: no cancellation in the fail-fast stages: a submitted job is never
\* dropped from its pool's queue, a queued job leaves the queue only by
\* starting to run, and when the exception of a job has reached the caller
\* of the stage every job submitted to the stage's pool has run to its end,
\* by returning or by raising.
C18_NoCancellation ==
    /\ []((ppc = "failed" /\ exc = "job") =>
             \A i \in PoolJobs(pool) : jobs[i].st \in {"ok", "raised"})
    /\ [][/\ Len(jobs') >= Len(jobs)
          /\ \A i \in 1 .. Len(jobs) :
                jobs[i].st = "pending" => jobs'[i].st \in {"pending", "running"}]_vars

\* C18 witness: react() has raised with the exception of its first job
\* after its second job, which a pool of one worker can only have started
\* once the first had failed, ran and returned
C18_Witness ==
    /\ ppc = "failed"
    /\ exc = "job"
    /\ nthreads = 1
    /\ \E i, j \in StageJobs("react") :
          /\ jobs[i].n = 1 /\ jobs[i].st = "raised" /\ exc_job = i
          /\ jobs[j].n = 2 /\ jobs[j].st = "ok"

\* C19: the exception a fail-fast stage propagates is that of the first
\* failing job in submission order, whatever the order in which the jobs
\* failed.
C19_FirstInSubmissionOrder ==
    exc = "job" =>
        /\ exc_job \in PoolJobs(pool)
        /\ jobs[exc_job].st = "raised"
        /\ \A i \in PoolJobs(pool) :
              jobs[i].st = "raised" => jobs[exc_job].n <= jobs[i].n

\* C19 witness: the second job of a search pool of two workers has raised
\* while the first was still running, the first has raised after it, and
\* the stage has propagated the exception of the first
C19_Witness ==
    /\ ppc = "failed"
    /\ exc = "job"
    /\ nthreads = 2
    /\ \E i, j \in StageJobs("search") :
          /\ jobs[i].n = 1 /\ jobs[i].st = "raised" /\ exc_job = i
          /\ jobs[j].n = 2 /\ jobs[j].st = "raised"

\* C20: in every pool, at no time are more than nthreads of its jobs
\* running, however many jobs were submitted to it.
C20_PoolSize ==
    \A p \in 1 .. pool :
        Cardinality({i \in PoolJobs(p) : jobs[i].st = "running"}) <= nthreads

\* C20 witness: every worker of a pool is busy while a job submitted to
\* that pool waits in its queue
C20_Witness ==
    \E p \in 1 .. pool :
        /\ Cardinality({i \in PoolJobs(p) : jobs[i].st = "running"}) = nthreads
        /\ \E i \in PoolJobs(p) : jobs[i].st = "pending"

\* ------------------------------------------------------------------ C11, C12, C13
\* the pipeline order; the stage at position i is gated by restart < i and
\* the last one is not gated
PipelineOrder == <<"opt", "stretch", "search", "refine", "react">>

Gated(i) == i = Len(PipelineOrder) \/ restart < i

\* the stages among the first n of the pipeline that restart lets run
StagesDue(n) ==
    LET idx == SelectSeq([i \in 1 .. n |-> i], Gated)
    IN [j \in 1 .. Len(idx) |-> PipelineOrder[idx[j]]]

\* how many of the stage calls the main thread has gone past; -1 inside a
\* stage and after an early end
StagesPassed ==
    CASE ppc \in {"start", "geom", "opt"} -> 0
      [] ppc = "stretch" -> 1
      [] ppc \in {"indices", "step2"} -> 2
      [] ppc = "step2b" -> 3
      [] ppc = "step3" -> 4
      [] ppc \in {"returned", "finished"} -> 5
      [] OTHER -> -1

\* C11: restart gating: at restart level r the initial optimization runs
\* iff r < 1, the initial structure generation iff r < 2, the metadynamics
\* search iff r < 3, the refinement iff r < 4, and the reaction construction
\* at every level; the stages run in pipeline order, each at most once, and
\* no job of a skipped stage is ever submitted.
C11_RestartGating ==
    /\ LET due == StagesDue(5)
       IN /\ Len(ran) <= Len(due)
          /\ \A i \in 1 .. Len(ran) : ran[i] = due[i]
    /\ StagesPassed >= 0 => ran = StagesDue(StagesPassed)
    /\ \A j \in 1 .. Len(jobs) :
          /\ jobs[j].stage \in Range(ran)
          /\ jobs[j].stage = "search" => restart < 3
          /\ jobs[j].stage = "refine" => restart < 4

\* C11 witness: a run at restart level 2 has come to its end having called
\* the search, the refinement and the reaction construction, and nothing else
C11_Witness ==
    /\ ppc = "finished"
    /\ restart = 2
    /\ ran = <<"search", "refine", "react">>
    /\ StageJobs("search") # {}
    /\ StageJobs("react") # {}

\* C12: when the output directory exists, a run with neither a restart
\* level above 0 nor the overwrite flag ends with a non-zero status before
\* any stage runs and leaves the directory as it was; with the overwrite
\* flag and no restart level the directory is emptied; with a restart level
\* above 0 it is kept as it is.
C12_ExistingOutDir ==
    /\ [][(ppc = "start" /\ "out" \in dirs) =>
            /\ (restart = 0 /\ ~overwrite) =>
                  /\ ppc' = "exited"
                  /\ dirs' = dirs /\ mtd' = mtd /\ cre' = cre
                  /\ ran' = <<>> /\ jobs' = <<>>
            /\ (restart = 0 /\ overwrite) =>
                  /\ ppc' = "geom"
                  /\ dirs' = {"out"}
                  /\ \A l \in LaneIds : mtd'[l] = 0 /\ cre'[l] = 0
            /\ restart > 0 =>
                  /\ ppc' = "geom"
                  /\ dirs' = dirs /\ mtd' = mtd /\ cre' = cre]_vars
    /\ [](ppc = "exited" => ExitStatus # 0)
    /\ [][ppc = "exited" => UNCHANGED <<dirs, mtd, cre, ran, jobs>>]_vars

\* C12 witness: the run has ended at once over the untouched directory of
\* a complete earlier run
C12_Witness ==
    /\ ppc = "exited"
    /\ restart = 0
    /\ ~overwrite
    /\ ran = <<>>
    /\ dirs = PreviousRun(Len(Outputs))

\* C13: when no lane index is left after sorting and removing repeats, the
\* run ends with a non-zero status and none of metadynamics search,
\* refinement and reaction construction is started.
C13_NoLaneExits ==
    /\ [][(ppc = "indices" /\ ppc' # "indices") =>
            IF mtd_indices' = <<>> THEN ppc' = "exited" ELSE ppc' = "step2"]_vars
    /\ [](ppc = "exited" =>
            /\ Ended
            /\ ExitStatus # 0
            /\ Range(ran) \cap {"search", "refine", "react"} = {}
            /\ jobs = <<>>)
    /\ [][ppc = "exited" => ppc' = "exited"]_vars

\* C13 witness: a fresh run has optimized and generated its initial
\* structures, found no lane, and ended
C13_Witness ==
    /\ ppc = "exited"
    /\ mtd_indices = <<>>
    /\ ran = <<"opt", "stretch">>
    /\ "init" \in dirs

\* ------------------------------------------------------------------ C21
\* C21: metadynamics_refine collects in submission order: while and after
\* a lane's futures are classified, the converged list holds exactly the
\* jobs that returned among those examined so far, each once, in the order
\* in which they were submitted, whatever the order in which they finished.
C21_ConvergedInSubmissionOrder ==
    ppc = "refine_classify" =>
        /\ \A i, j \in 1 .. Len(converged) : i < j => converged[i] < converged[j]
        /\ Range(converged) =
               {jobs[i].n : i \in {k \in PoolJobs(pool) :
                                      jobs[k].n <= res_i /\ jobs[k].st = "ok"}}
        /\ \A i, j \in 1 .. Len(errors) : i < j => errors[i] < errors[j]

\* C21 witness: both quick optimizations of a lane, run by a pool of two
\* workers, have returned and have been classified
C21_Witness ==
    /\ ppc = "refine_classify"
    /\ nthreads = 2
    /\ converged = <<1, 2>>
    /\ res_i = 2

C23_PoolCursor ==
    LET P == Len(gen_structures)
    IN (gpc \in {"loop", "returned"} /\ P >= 1) =>
          /\ curr \in 0 .. (P - 1)
          /\ curr = gen_i % P
          /\ Len(seeds) = gen_i
          /\ \A k \in 0 .. (Len(seeds) - 1) : seeds[k + 1] = gen_structures[(k % P) + 1]
          /\ opt_files = SubSeq(gen_indices, 1, gen_i)
          /\ gpc = "returned" =>
                /\ gen_i = Len(gen_indices)
                /\ \A l \in Range(gen_indices) : Occurrences(opt_files, l) = 1

\* C23 witness: the function has returned for three lanes over a pool of
\* two candidates that the shuffle had swapped
C23_Witness ==
    /\ gpc = "returned"
    /\ Len(gen_indices) = 3
    /\ gen_structures = <<2, 1>>
    /\ seeds = <<2, 1, 2>>

\* ------------------------------------------------------------------ C24
\* C24: every entry of the merged index array a reaction job writes is the
\* position, in the merged trajectory, of the converged structure of the
\* optimization step it stands for: the first entries stand for the
\* backward steps in reverse order, the following ones for the forward
\* steps in order.
C24_MergedIndices ==
    jpc = "done" =>
        LET nb == Len(bres[3])
        IN \A j \in 1 .. Len(dumped[3]) :
              LET p == dumped[3][j] + 1
              IN /\ p \in 1 .. Len(dumped[1])
                 /\ dumped[1][p].k = dumped[1][p].n
                 /\ j <= nb => /\ dumped[1][p].chain = "b"
                               /\ dumped[1][p].step = nb - j
                 /\ j > nb => /\ dumped[1][p].chain = "f"
                              /\ dumped[1][p].step = j - nb - 1

\* ------------------------------------------------------------------ C25
\* C25: when the reactions directory exists while react() runs, react()
\* raises before it submits a reaction job: no job is added, no pool is
\* opened and the directories stay as they are; and when the init
\* directory exists as generate_initial_structures is called, the call
\* raises FileExistsError at once, before any engine run, leaving the
\* directories as they are.
C25_ExistingDirRaises ==
    [][/\ (ppc = "react_build" /\ "reactions" \in dirs) =>
              /\ ppc' \in {"react_build", "failed"}
              /\ (ppc' = "failed" /\ wpc = "shuffled") => exc' = "FileExistsError"
              /\ UNCHANGED <<dirs, jobs, pool, nreact>>
       /\ (ppc = "stretch" /\ do_stretch /\ "init" \in dirs) =>
              /\ ppc' = "failed"
              /\ exc' = "FileExistsError"
              /\ UNCHANGED <<dirs, jobs, pool>>]_vars

\* C25 witness: a restart that skipped the earlier stages ran react() over
\* an existing reactions directory; react() raised and no reaction job
\* exists
C25_Witness ==
    /\ restart >= 2
    /\ ppc = "failed"
    /\ exc = "FileExistsError"
    /\ ran # <<>>
    /\ ran[Len(ran)] = "react"
    /\ "reactions" \in dirs
    /\ worklist # <<>>
    /\ \A i \in 1 .. Len(jobs) : jobs[i].stage # "react"

\* ------------------------------------------------------------------ C26
\* the exceptions of the stages (a job, CREGEN, the engine, an existing
\* directory) and the deliberate exits of the script
StageExceptions == {"job", "cregen", "engine", "FileExistsError", "SystemExit"}

\* C26: a run in which no executed stage raises and the script does not
\* exit on purpose terminates normally, with status 0, at every log level,
\* log level 0 (no command log file) included.
C26_NormalTermination ==
    \A lvl \in LogLevels :
        (log_level = lvl /\ Ended /\ exc \notin StageExceptions) =>
            /\ ppc = "finished"
            /\ ExitStatus = 0

====
